---- MODULE Spec2Model ----
(***************************************************************************)
(* BOM hierarchical viewer (src/app.py, src/oracle_utils.py).              *)
(*                                                                         *)
(* Specifications, over one set of variables:                              *)
(*   SpecNorm   normalize_component applied once and then again            *)
(*   Spec       build_bom_hierarchy, the display filter, the grouping and  *)
(*              the per-group query_llm loop of the "Search BOM" handler   *)
(*   FairSpec   Spec with weak fairness, on the rows that pass the filter  *)
(*   SpecEnrich the purchase-order cache and the row enrichment loop of    *)
(*              the "Search BOM" handler                                   *)
(* The enrichment only adds the PO columns, which build_bom_hierarchy      *)
(* copies untouched, so the two halves of the handler are separate         *)
(* specifications. A string is a sequence of one-character strings; money  *)
(* is in whole units; B/M, the descriptions, last_unit_price and           *)
(* vendor_name are carried by the code unchanged and are left out.         *)
(***************************************************************************)
EXTENDS Integers, Sequences, FiniteSets, TLC

VARIABLES
    comp,            \* normalize_component: the raw string
    once,            \* normalize_component(comp)
    twice,           \* normalize_component(once)
    npc,             \* position in SpecNorm: "raw", "once", "twice"
    df,              \* the flat BOM rows returned by get_bom_structure
    fdf,             \* build_bom_hierarchy: df after the filter, with Extended Cost
    top_items,       \* build_bom_hierarchy: top_items
    ti,              \* index of the current top in "for top in top_items"
    stack,           \* call stack of recurse: <<[parent, level, children, i], ...>>
    hierarchy_rows,  \* build_bom_hierarchy: hierarchy_rows
    df_result,       \* handler: df_result after the Level filter, rows with their index label
    level_0_groups,  \* handler: level_0_groups
    gi,              \* index of the current group in "for group in level_0_groups"
    invoked,         \* groups (by index) for which query_llm was called
    shown,           \* groups (by index) whose analysis was displayed in an expander
    error,           \* what the handler's "except Exception" reported, "" if nothing
    pc,              \* position in the handler
    df_component,    \* enrichment: the Component column of df, one cell per row
    po_history,      \* the purchase-order source: for each purchase order of item W,
                     \* the date of its last receipt
    components,      \* handler: components
    ci,              \* index of the current component in "for component in components"
    po_info_dict,    \* handler: po_info_dict
    calls,           \* the arguments of the calls of get_latest_purchase_orders, in order
    ri,              \* index of the current row in "for i, row in df.iterrows()"
    attached,        \* per row, the purchase records written to "PO 1", "PO 2", ...
    epc              \* position in the enrichment

normVars == <<comp, once, twice, npc>>

buildVars == <<df, fdf, top_items, ti, stack, hierarchy_rows>>

llmVars == <<df_result, level_0_groups, gi, invoked, shown, error>>

enrichVars == <<df_component, po_history, components, ci, po_info_dict, calls, ri,
                attached, epc>>

vars == <<comp, once, twice, npc, df, fdf, top_items, ti, stack, hierarchy_rows,
          df_result, level_0_groups, gi, invoked, shown, error, pc,
          df_component, po_history, components, ci, po_info_dict, calls, ri,
          attached, epc>>

----------------------------------------------------------------------------
(* Bounds *)

MaxLen == 5

MaxRows == 3

MaxComponents == 2

MaxPOs == 4

\* depth of the call stack at which Python raises RecursionError
RecursionLimit == 6

----------------------------------------------------------------------------
(* Strings *)

Alphabet == {"-", " ", "W"}

Whitespace == {" "}

RECURSIVE StringsUpTo(_)
StringsUpTo(n) ==
    IF n = 0 THEN {<<>>}
    ELSE LET shorter == StringsUpTo(n - 1)
         IN  shorter \cup {<<c>> \o s : c \in Alphabet, s \in {t \in shorter : Len(t) = n - 1}}

\* str.lstrip(chars): drop the leading characters that are in chars
RECURSIVE LStrip(_, _)
LStrip(s, chars) ==
    IF s = <<>> THEN s
    ELSE IF Head(s) \in chars THEN LStrip(Tail(s), chars)
    ELSE s

\* str.rstrip(chars): drop the trailing characters that are in chars
RECURSIVE RStrip(_, _)
RStrip(s, chars) ==
    IF s = <<>> THEN s
    ELSE IF s[Len(s)] \in chars THEN RStrip(SubSeq(s, 1, Len(s) - 1), chars)
    ELSE s

\* str.strip(): drop leading and trailing whitespace
Strip(s) == RStrip(LStrip(s, Whitespace), Whitespace)

\* the marker "-  " (a hyphen and two spaces)
Marker == <<"-", " ", " ">>

\* str.replace(old, ""): remove the non-overlapping occurrences of old,
\* scanning from the left
RECURSIVE Remove(_, _)
Remove(s, old) ==
    IF Len(s) < Len(old) THEN s
    ELSE IF SubSeq(s, 1, Len(old)) = old
         THEN Remove(SubSeq(s, Len(old) + 1, Len(s)), old)
         ELSE <<Head(s)>> \o Remove(Tail(s), old)

\* comp.strip().replace("-  ", "").lstrip("-").strip()
normalize_component(c) ==
    Strip(LStrip(Remove(Strip(c), Marker), {"-"}))

----------------------------------------------------------------------------
(* SpecNorm: normalize_component on every string up to MaxLen, then on its *)
(* own result                                                              *)

IdleBuild ==
    /\ df = <<>>
    /\ fdf = <<>>
    /\ top_items = <<>>
    /\ ti = 0
    /\ stack = <<>>
    /\ hierarchy_rows = <<>>
    /\ df_result = <<>>
    /\ level_0_groups = <<>>
    /\ gi = 0
    /\ invoked = {}
    /\ shown = {}
    /\ error = ""
    /\ pc = "idle"

IdleNorm ==
    /\ comp = <<>>
    /\ once = <<>>
    /\ twice = <<>>
    /\ npc = "idle"

IdleEnrich ==
    /\ df_component = <<>>
    /\ po_history = <<>>
    /\ components = <<>>
    /\ ci = 0
    /\ po_info_dict = <<>>
    /\ calls = <<>>
    /\ ri = 0
    /\ attached = <<>>
    /\ epc = "idle"

InitNorm ==
    /\ comp \in StringsUpTo(MaxLen)
    /\ once = <<>>
    /\ twice = <<>>
    /\ npc = "raw"
    /\ IdleBuild
    /\ IdleEnrich

Normalize ==
    /\ npc = "raw"
    /\ once' = normalize_component(comp)
    /\ npc' = "once"
    /\ UNCHANGED <<comp, twice, buildVars, llmVars, pc, enrichVars>>

Renormalize ==
    /\ npc = "once"
    /\ twice' = normalize_component(once)
    /\ npc' = "twice"
    /\ UNCHANGED <<comp, once, buildVars, llmVars, pc, enrichVars>>

NextNorm == Normalize \/ Renormalize

SpecNorm == InitNorm /\ [][NextNorm]_vars

\* C1: normalize_component is idempotent: normalizing a normalized string
\* gives the same string back.
C1_Idempotent == npc = "twice" => twice = once

----------------------------------------------------------------------------
(* The flat BOM rowset *)

\* None in an identifier column
None == "None"

\* None / NaN in a numeric column is <<>>, the number n is <<n>>
NoQty == <<>>

Levels == {1, 2}

Items == {"A", "B"}

Components == {"A", "B"}

\* <<Component Quantity, Unit Cost>>: a missing quantity, a zero quantity,
\* a zero cost, and two pairs that pass the filter
QtyCosts == {<<NoQty, 3>>, <<<<0>>, 3>>, <<<<2>>, 0>>, <<<<1>>, 1>>, <<<<2>>, 3>>}

RowSet ==
    {[Level |-> l, Item |-> i, Component |-> c, Qty |-> qc[1], Cost |-> qc[2]] :
        l \in Levels, i \in Items, c \in Components, qc \in QtyCosts}

Rank(S, x, before(_, _)) == Cardinality({y \in S : before(y, x)})

NameBefore(a, b) == a = "A" /\ b = "B"

QtyCostBefore(a, b) ==
    LET q(x) == IF x[1] = NoQty THEN 0 ELSE 1 + x[1][1]
    IN  q(a) * 10 + a[2] < q(b) * 10 + b[2]

\* the place of each row in the query result: ORDER BY LEVEL, then a fixed order
RowKeys ==
    [r \in RowSet |->
        ((r.Level * 2 + Rank(Items, r.Item, NameBefore)) * 2
            + Rank(Components, r.Component, NameBefore)) * 5
            + Rank(QtyCosts, <<r.Qty, r.Cost>>, QtyCostBefore)]

RowKey(r) == RowKeys[r]

\* the rows of R in the order of the query result
InOrder(R) ==
    [k \in 1..Cardinality(R) |->
        CHOOSE r \in R : Cardinality({x \in R : RowKey(x) < RowKey(r)}) = k - 1]

\* the increasing sequences of at most n numbers of 1..m
RECURSIVE Increasing(_, _)
Increasing(m, n) ==
    IF n = 0 THEN {<<>>}
    ELSE LET shorter == Increasing(m, n - 1)
             longest == {u \in shorter : Len(u) = n - 1}
         IN  shorter \cup
             {Append(p[1], p[2]) :
                 p \in {q \in longest \X (1..m) : n = 1 \/ q[1][n - 1] < q[2]}}

RowSeq == InOrder(RowSet)

\* the rowsets of at most n distinct rows of the sequence rows
\* (drop_duplicates), ORDER BY LEVEL
RowsetsUpTo(rows, n) ==
    {[k \in 1..Len(t) |-> rows[t[k]]] : t \in Increasing(Len(rows), n)}

----------------------------------------------------------------------------
(* build_bom_hierarchy *)

Positive(q) == q # NoQty /\ q[1] > 0

\* variant of Keep: the quantity compared with >= 0
KeepZeroQuantity(r) == r.Cost > 0 /\ r.Qty # NoQty /\ r.Qty[1] >= 0

\* df[(df["Unit Cost"] > 0) & (df["Component Quantity"] > 0)]
Keep(r) == r.Cost > 0 /\ Positive(r.Qty)

\* df["Extended Cost"] = df["Component Quantity"] * df["Unit Cost"]
WithExtended(r) ==
    [Level |-> r.Level, Item |-> r.Item, Component |-> r.Component,
     Qty |-> r.Qty, Cost |-> r.Cost, Ext |-> r.Qty[1] * r.Cost]

RECURSIVE MapExtended(_)
MapExtended(s) ==
    IF s = <<>> THEN <<>> ELSE <<WithExtended(Head(s))>> \o MapExtended(Tail(s))

Filtered(d) == MapExtended(SelectSeq(d, Keep))

\* Series.unique(): the distinct values, in order of first appearance
RECURSIVE Unique(_)
Unique(s) ==
    IF s = <<>> THEN <<>>
    ELSE LET init == Unique(SubSeq(s, 1, Len(s) - 1))
             last == s[Len(s)]
         IN  IF \E k \in 1..Len(init) : init[k] = last THEN init
             ELSE Append(init, last)

RECURSIVE ItemColumn(_)
ItemColumn(s) ==
    IF s = <<>> THEN <<>> ELSE <<Head(s).Item>> \o ItemColumn(Tail(s))

RECURSIVE ComponentColumn(_)
ComponentColumn(s) ==
    IF s = <<>> THEN <<>> ELSE <<Head(s).Component>> \o ComponentColumn(Tail(s))

\* variant of TopItems: the Component column instead of the Item column
TopComponents(f) ==
    LET IsLevel1(r) == r.Level = 1
    IN  Unique(ComponentColumn(SelectSeq(f, IsLevel1)))

\* df[df["Level"] == 1]["Item"].unique()
TopItems(f) ==
    LET IsLevel1(r) == r.Level = 1
    IN  Unique(ItemColumn(SelectSeq(f, IsLevel1)))

\* df[df["Item"] == parent]
Children(f, parent) ==
    LET IsChild(r) == r.Item = parent
    IN  SelectSeq(f, IsChild)

RECURSIVE SumUnitCost(_)
SumUnitCost(s) ==
    IF s = <<>> THEN 0 ELSE Head(s).Cost + SumUnitCost(Tail(s))

RECURSIVE SumExtendedCost(_)
SumExtendedCost(s) ==
    IF s = <<>> THEN 0 ELSE Head(s).Ext + SumExtendedCost(Tail(s))

\* variant of RollupRows: the rows below top and the rows below those
RollupWithGrandchildren(f, top) ==
    LET IsBelow(r) == r.Item = top \/ \E k \in 1..Len(f) :
                          f[k].Item = top /\ f[k].Component = r.Item
    IN  SelectSeq(f, IsBelow)

\* the rows the rollup of top sums: df[df["Item"] == top]
RollupRows(f, top) == Children(f, top)

\* pseudo_row; Indent 0: "Display Component" is top itself, without a marker
PseudoRow(f, top) ==
    [Level |-> 0, Item |-> None, Component |-> top, Qty |-> NoQty,
     Cost |-> SumUnitCost(RollupRows(f, top)),
     Ext |-> SumExtendedCost(RollupRows(f, top)),
     Indent |-> 0]

\* row_data: the row with "Display Component" indented by level
RowData(r, level) ==
    [Level |-> r.Level, Item |-> r.Item, Component |-> r.Component,
     Qty |-> r.Qty, Cost |-> r.Cost, Ext |-> r.Ext, Indent |-> level]

\* variant of Expands: the cutoff one level deeper
ExpandsThrough3(level) == level <= 3

\* variant of Expands: no cutoff
ExpandsAlways(level) == TRUE

\* "if level <= 2": the rows emitted at this level are expanded
Expands(level) == level <= 2

Frame(f, parent, level) ==
    [parent |-> parent, level |-> level, children |-> Children(f, parent), i |-> 1]

\* the rows with quantity 1 and unit cost 1: every parent/child shape,
\* cycles included
UnitRowSet == {r \in RowSet : r.Qty = <<1>> /\ r.Cost = 1}

UnitRowSeq == InOrder(UnitRowSet)

InitHandler(rows) ==
    /\ df \in RowsetsUpTo(rows, MaxRows)
    /\ fdf = <<>>
    /\ top_items = <<>>
    /\ ti = 0
    /\ stack = <<>>
    /\ hierarchy_rows = <<>>
    /\ df_result = <<>>
    /\ level_0_groups = <<>>
    /\ gi = 0
    /\ invoked = {}
    /\ shown = {}
    /\ error = ""
    /\ pc = "search"
    /\ IdleNorm
    /\ IdleEnrich

InitBuild == InitHandler(RowSeq)

InitFair == InitHandler(UnitRowSeq)

\* "if df.empty: st.info(...)", else the head of build_bom_hierarchy:
\* the filter, Extended Cost, top_items
Search ==
    /\ pc = "search"
    /\ IF df = <<>>
       THEN /\ pc' = "done"
            /\ UNCHANGED <<fdf, top_items, ti>>
       ELSE /\ fdf' = Filtered(df)
            /\ top_items' = TopItems(Filtered(df))
            /\ ti' = 1
            /\ pc' = "top"
    /\ UNCHANGED <<df, stack, hierarchy_rows, llmVars, normVars, enrichVars>>

\* "for top in top_items": append pseudo_row and call recurse(top, 1)
Rollup ==
    /\ pc = "top"
    /\ ti <= Len(top_items)
    /\ hierarchy_rows' = Append(hierarchy_rows, PseudoRow(fdf, top_items[ti]))
    /\ stack' = <<Frame(fdf, top_items[ti], 1)>>
    /\ pc' = "recurse"
    /\ UNCHANGED <<df, fdf, top_items, ti, llmVars, normVars, enrichVars>>

\* one iteration of "for _, row in children.iterrows()" in the innermost call
\* of recurse: append row_data and, if the level expands, call recurse
Emit ==
    /\ pc = "recurse"
    /\ stack # <<>>
    /\ LET n == Len(stack)
           fr == stack[n]
       IN  /\ fr.i <= Len(fr.children)
           /\ LET row == fr.children[fr.i]
                  rest == [stack EXCEPT ![n].i = fr.i + 1]
              IN  /\ hierarchy_rows' = Append(hierarchy_rows, RowData(row, fr.level))
                  /\ IF ~Expands(fr.level)
                     THEN /\ stack' = rest
                          /\ UNCHANGED <<pc, error>>
                     ELSE IF n < RecursionLimit
                     THEN /\ stack' = Append(rest, Frame(fdf, row.Component, fr.level + 1))
                          /\ UNCHANGED <<pc, error>>
                     ELSE /\ stack' = <<>>
                          /\ error' = "RecursionError"
                          /\ pc' = "done"
    /\ UNCHANGED <<df, fdf, top_items, ti, df_result, level_0_groups, gi, invoked,
                   shown, normVars, enrichVars>>

\* the innermost call of recurse has no more children: it returns; when the
\* outermost call returns, the loop goes to the next top
Return ==
    /\ pc = "recurse"
    /\ stack # <<>>
    /\ LET n == Len(stack)
       IN  /\ stack[n].i > Len(stack[n].children)
           /\ stack' = SubSeq(stack, 1, n - 1)
           /\ IF n = 1
              THEN ti' = ti + 1 /\ pc' = "top"
              ELSE UNCHANGED <<ti, pc>>
    /\ UNCHANGED <<df, fdf, top_items, hierarchy_rows, llmVars, normVars, enrichVars>>

\* "return pd.DataFrame(hierarchy_rows)"
Built ==
    /\ pc = "top"
    /\ ti > Len(top_items)
    /\ pc' = "built"
    /\ UNCHANGED <<buildVars, llmVars, normVars, enrichVars>>

----------------------------------------------------------------------------
(* The "Search BOM" handler after build_bom_hierarchy *)

\* reset_index(drop=True): row k of the hierarchy gets the index label k - 1
RECURSIVE Labelled(_, _)
Labelled(h, k) ==
    IF k > Len(h) THEN <<>>
    ELSE <<[label |-> k - 1, row |-> h[k]]>> \o Labelled(h, k + 1)

\* df_result[df_result["Level"].isin([0, 1])]: the rows keep their labels
Level01(h) ==
    LET Shown(e) == e.row.Level \in {0, 1}
    IN  SelectSeq(Labelled(h, 1), Shown)

\* df_result["Component Quantity"].fillna(0).astype(int)
RECURSIVE FillQty(_)
FillQty(d) ==
    IF d = <<>> THEN <<>>
    ELSE LET e == Head(d)
         IN  <<[e EXCEPT !.row.Qty = IF e.row.Qty = NoQty THEN <<0>> ELSE e.row.Qty]>>
                 \o FillQty(Tail(d))

DisplayRows(h) == FillQty(Level01(h))

RECURSIVE LabelColumn(_)
LabelColumn(d) ==
    IF d = <<>> THEN <<>> ELSE <<Head(d).label>> \o LabelColumn(Tail(d))

\* df_result[df_result["Level"] == 0].index.tolist() + [len(df_result)]
Level0Indices(d) ==
    LET IsRollup(e) == e.row.Level = 0
    IN  Append(LabelColumn(SelectSeq(d, IsRollup)), Len(d))

Min(a, b) == IF a < b THEN a ELSE b

\* df_result.iloc[a:b]: the rows at the 0-based positions a .. b - 1
ILoc(d, a, b) == SubSeq(d, a + 1, Min(b, Len(d)))

\* [df_result.iloc[level_0_indices[i]:level_0_indices[i+1]] for i in range(len - 1)]
Level0Groups(d) ==
    LET idx == Level0Indices(d)
    IN  [i \in 1..(Len(idx) - 1) |-> ILoc(d, idx[i], idx[i + 1])]

\* df_result after the Level filter, and level_0_groups; a hierarchy without
\* rows is a DataFrame without columns, and df_result["Level"] raises KeyError
Display ==
    /\ pc = "built"
    /\ IF hierarchy_rows = <<>>
       THEN /\ error' = "KeyError"
            /\ pc' = "done"
            /\ UNCHANGED <<df_result, level_0_groups, gi>>
       ELSE /\ df_result' = DisplayRows(hierarchy_rows)
            /\ level_0_groups' = Level0Groups(DisplayRows(hierarchy_rows))
            /\ gi' = 1
            /\ pc' = "llm"
            /\ UNCHANGED error
    /\ UNCHANGED <<buildVars, invoked, shown, normVars, enrichVars>>

\* one iteration of "for group in level_0_groups": build_prompt_from_group
\* reads group.iloc[0] (IndexError on an empty group), query_llm returns or
\* raises, and the expander shows the response; nothing inside the loop
\* catches an exception, the handler's "except Exception" ends the loop
Analyze ==
    /\ pc = "llm"
    /\ gi <= Len(level_0_groups)
    /\ IF level_0_groups[gi] = <<>>
       THEN /\ error' = "IndexError"
            /\ pc' = "done"
            /\ UNCHANGED <<gi, invoked, shown>>
       ELSE /\ invoked' = invoked \cup {gi}
            /\ \E ok \in BOOLEAN :
                 IF ok
                 THEN /\ shown' = shown \cup {gi}
                      /\ gi' = gi + 1
                      /\ UNCHANGED <<error, pc>>
                 ELSE /\ error' = "query_llm"
                      /\ pc' = "done"
                      /\ UNCHANGED <<gi, shown>>
    /\ UNCHANGED <<buildVars, df_result, level_0_groups, normVars, enrichVars>>

\* the loop over the groups is over
Finish ==
    /\ pc = "llm"
    /\ gi > Len(level_0_groups)
    /\ pc' = "done"
    /\ UNCHANGED <<buildVars, llmVars, normVars, enrichVars>>

Next == Search \/ Rollup \/ Emit \/ Return \/ Built \/ Display \/ Analyze \/ Finish

Spec == InitBuild /\ [][Next]_vars

\* the handler is one synchronous run: no step waits for anything. The rows
\* of FairSpec all pass the filter, so that every shape of the parent/child
\* graph is walked.
FairSpec == InitFair /\ [][Next]_vars /\ WF_vars(Next)

----------------------------------------------------------------------------
(* Properties of build_bom_hierarchy *)

\* the filter as the data model states it: quantity > 0 and unit cost > 0
Survives(r) == r.Qty # NoQty /\ r.Qty[1] > 0 /\ r.Cost > 0

Survivors == SelectSeq(df, Survives)

ExtendedCostOf(r) == r.Qty[1] * r.Cost

RECURSIVE TotalUnitCost(_)
TotalUnitCost(s) == IF s = <<>> THEN 0 ELSE Head(s).Cost + TotalUnitCost(Tail(s))

RECURSIVE TotalExtendedCost(_)
TotalExtendedCost(s) ==
    IF s = <<>> THEN 0 ELSE ExtendedCostOf(Head(s)) + TotalExtendedCost(Tail(s))

IsRollupAt(h, k) == h[k].Level = 0

RollupPositions(h) == {k \in 1..Len(h) : IsRollupAt(h, k)}

\* the last row of the group that the rollup row at k opens
GroupEnd(h, k) ==
    IF \E j \in RollupPositions(h) : j > k
    THEN (CHOOSE j \in RollupPositions(h) :
              j > k /\ \A m \in RollupPositions(h) : m > k => j <= m) - 1
    ELSE Len(h)

\* the last row of the expansion of the row at k: the rows after k that are deeper
SubtreeEnd(h, k) ==
    CHOOSE j \in k..Len(h) :
        /\ \A m \in (k + 1)..j : h[m].Indent > h[k].Indent
        /\ j = Len(h) \/ h[j + 1].Indent <= h[k].Indent

\* the rows of h in positions a..b that were emitted at the given depth
AtDepth(h, a, b, d) ==
    LET Is(r) == r.Indent = d
    IN  SelectSeq(SubSeq(h, a, b), Is)

\* the surviving rows below parent, as recurse emits them at depth d
RECURSIVE ExpectedAtDepth(_, _, _)
ExpectedAtDepth(s, parent, d) ==
    IF s = <<>> THEN <<>>
    ELSE (IF Head(s).Item = parent
          THEN <<[Level |-> Head(s).Level, Item |-> Head(s).Item,
                  Component |-> Head(s).Component, Qty |-> Head(s).Qty,
                  Cost |-> Head(s).Cost, Ext |-> ExtendedCostOf(Head(s)),
                  Indent |-> d]>>
          ELSE <<>>) \o ExpectedAtDepth(Tail(s), parent, d)

Level1Rows == {k \in 1..Len(Survivors) : Survivors[k].Level = 1}

Level1Items == {Survivors[k].Item : k \in Level1Rows}

Level1Components == {Survivors[k].Component : k \in Level1Rows}

RollupComponents == {hierarchy_rows[k].Component : k \in RollupPositions(hierarchy_rows)}

\* C2 as stated: the top assemblies are the distinct values of the component
\* column among the filtered rows of level 1.
C2_TopsAreLevel1Components ==
    pc = "built" => RollupComponents = Level1Components

\* C2 amended: the top assemblies, each with exactly one depth-0 rollup row
\* from which the recursion starts, are the distinct values of the Item
\* (assembly item) column among the filtered rows of level 1.
C2_TopsAreLevel1Items ==
    pc = "built" =>
        /\ RollupComponents = Level1Items
        /\ Cardinality(RollupPositions(hierarchy_rows)) = Cardinality(Level1Items)
        /\ \A k \in RollupPositions(hierarchy_rows) :
               AtDepth(hierarchy_rows, k + 1, GroupEnd(hierarchy_rows, k), 1)
                   = ExpectedAtDepth(Survivors, hierarchy_rows[k].Component, 1)

C2_Witness ==
    /\ pc = "built"
    /\ Cardinality(RollupComponents) = 2
    /\ Level1Components # Level1Items

\* C3: the rollup row of top assembly T has unitCost and extendedCost equal to
\* the sums over the filtered rows whose Item is T, which are the rows emitted
\* at depth 1 in T's group, deeper rows excluded.
C3_RollupSumsDirectChildren ==
    pc = "built" =>
        \A k \in RollupPositions(hierarchy_rows) :
            LET T == hierarchy_rows[k].Component
                IsChildOfT(r) == r.Item = T
                direct == SelectSeq(Survivors, IsChildOfT)
                depth1 == AtDepth(hierarchy_rows, k + 1, GroupEnd(hierarchy_rows, k), 1)
            IN  /\ hierarchy_rows[k].Cost = TotalUnitCost(direct)
                /\ hierarchy_rows[k].Ext = TotalExtendedCost(direct)
                /\ hierarchy_rows[k].Cost = TotalUnitCost(depth1)
                /\ hierarchy_rows[k].Ext = TotalExtendedCost(depth1)

C3_Witness ==
    /\ pc = "built"
    /\ \E k \in RollupPositions(hierarchy_rows) :
           /\ Len(AtDepth(hierarchy_rows, k + 1, GroupEnd(hierarchy_rows, k), 1)) = 2
           /\ Len(AtDepth(hierarchy_rows, k + 1, GroupEnd(hierarchy_rows, k), 2)) >= 1
           /\ hierarchy_rows[k].Cost = 4
           /\ hierarchy_rows[k].Ext = 7

\* C4: no row with quantity <= 0, missing quantity or unit cost <= 0 is in the
\* output: every emitted row passes the filter, and a rollup sums only rows
\* that pass it.
C4_FilteredRowsNeverAppear ==
    \A k \in 1..Len(hierarchy_rows) :
        LET r == hierarchy_rows[k]
            Contributes(x) == x.Item = r.Component /\ Survives(x)
        IN  IF IsRollupAt(hierarchy_rows, k)
            THEN /\ r.Cost = TotalUnitCost(SelectSeq(df, Contributes))
                 /\ r.Ext = TotalExtendedCost(SelectSeq(df, Contributes))
            ELSE /\ Survives(r)
                 /\ \E j \in 1..Len(df) :
                        /\ Survives(df[j])
                        /\ r = [Level |-> df[j].Level, Item |-> df[j].Item,
                                Component |-> df[j].Component, Qty |-> df[j].Qty,
                                Cost |-> df[j].Cost, Ext |-> ExtendedCostOf(df[j]),
                                Indent |-> r.Indent]

C4_Witness ==
    /\ pc = "built"
    /\ Len(hierarchy_rows) >= 3
    /\ \E i, j, k \in 1..Len(df) :
           /\ df[i].Item = hierarchy_rows[1].Component /\ df[i].Qty = NoQty
           /\ df[j].Item = hierarchy_rows[1].Component /\ df[j].Qty = <<0>>
           /\ df[k].Item = hierarchy_rows[1].Component /\ Survives(df[k])

\* the row at k is expanded: the filtered rows below its component are emitted
\* one level deeper, in order, in the rows that follow it
Expanded(h, k) ==
    AtDepth(h, k + 1, SubtreeEnd(h, k), h[k].Indent + 1)
        = ExpectedAtDepth(Survivors, h[k].Component, h[k].Indent + 1)

NotExpanded(h, k) == SubtreeEnd(h, k) = k

\* C5 as stated: every row emitted at depth d <= 3 is expanded at depth d + 1,
\* rows at depth 4 are not, and no emitted row has depth > 4.
C5_ExpandsThroughDepth3 ==
    pc = "built" =>
        \A k \in 1..Len(hierarchy_rows) :
            /\ hierarchy_rows[k].Indent <= 4
            /\ hierarchy_rows[k].Indent \in 1..3 => Expanded(hierarchy_rows, k)
            /\ hierarchy_rows[k].Indent = 4 => NotExpanded(hierarchy_rows, k)

\* C5 amended: every row emitted at depth d <= 2 is expanded at depth d + 1 in
\* the rows that follow it, rows at depth 3 are never expanded, and no emitted
\* row has depth > 3.
C5_ExpandsThroughDepth2 ==
    pc = "built" =>
        \A k \in 1..Len(hierarchy_rows) :
            /\ hierarchy_rows[k].Indent <= 3
            /\ hierarchy_rows[k].Indent \in 1..2 => Expanded(hierarchy_rows, k)
            /\ hierarchy_rows[k].Indent = 3 => NotExpanded(hierarchy_rows, k)

C5_Witness ==
    /\ pc = "built"
    /\ \E k \in 1..Len(hierarchy_rows) :
           /\ hierarchy_rows[k].Indent = 3
           /\ ExpectedAtDepth(Survivors, hierarchy_rows[k].Component, 4) # <<>>
    /\ \E k \in 1..Len(hierarchy_rows) :
           /\ hierarchy_rows[k].Indent = 2
           /\ Len(AtDepth(hierarchy_rows, k + 1, SubtreeEnd(hierarchy_rows, k), 3)) = 2

\* the rowset has a cycle: a row that is its own parent, or A in B and B in A
Cyclic ==
    \E i, j \in 1..Len(Survivors) :
        /\ Survivors[i].Component = Survivors[j].Item
        /\ Survivors[j].Component = Survivors[i].Item

\* C6: build_bom_hierarchy terminates on every rowset, cyclic ones included:
\* the walk never goes deeper than the cutoff and the function returns.
C6_Terminates ==
    /\ [](Len(stack) <= 3 /\ error # "RecursionError")
    /\ <>(pc = "done")

C6_Witness ==
    /\ pc = "built"
    /\ Cyclic
    /\ \E k \in 1..Len(hierarchy_rows) : hierarchy_rows[k].Indent = 3

----------------------------------------------------------------------------
(* Properties of the handler after build_bom_hierarchy *)

\* [rollup row] + the rows after it up to, and excluding, the next rollup row
GroupFrom(d, k) ==
    LET IsRollup(j) == d[j].row.Level = 0
        later == {j \in (k + 1)..Len(d) : IsRollup(j)}
        stop == IF later = {} THEN Len(d) + 1
                ELSE CHOOSE j \in later : \A m \in later : j <= m
    IN  SubSeq(d, k, stop - 1)

\* C7: the groups are one per top assembly, each the rollup row of that top
\* followed by the retained rows up to the next rollup row.
C7_GroupsAreRollupRuns ==
    pc = "llm" =>
        /\ Len(level_0_groups) = Len(top_items)
        /\ \A g \in 1..Len(level_0_groups) :
               /\ level_0_groups[g] # <<>>
               /\ level_0_groups[g][1].row.Level = 0
               /\ level_0_groups[g][1].row.Component = top_items[g]
               /\ \E k \in 1..Len(df_result) :
                      /\ df_result[k] = level_0_groups[g][1]
                      /\ level_0_groups[g] = GroupFrom(df_result, k)

\* C8: a query_llm failure for one group is caught for that group only: the
\* estimator is still invoked for every other group and its analysis shown.
C8_FailureIsPerGroup ==
    (pc = "done" /\ error = "query_llm") =>
        \A g \in 1..Len(level_0_groups) :
            g # gi => (g \in invoked /\ g \in shown)

----------------------------------------------------------------------------
(* The purchase-order cache and the enrichment loop of the handler *)

\* a None cell of the Component column
NoneCell == <<"None">>

\* str(x)
Str(cell) == IF cell = NoneCell THEN <<"N", "o", "n", "e">> ELSE cell

ItemW == <<"W">>

\* spellings of a component: plain, padded, marked by a prior display pass,
\* hyphenated, and a missing identifier
RawComponents ==
    {ItemW, <<" ", "W", " ">>, <<"-", " ", " ", "W">>, <<"-", " ", "-", "W">>, NoneCell}

RECURSIVE ColumnsUpTo(_)
ColumnsUpTo(n) ==
    IF n = 0 THEN {<<>>}
    ELSE LET shorter == ColumnsUpTo(n - 1)
         IN  shorter \cup {Append(s, c) : s \in {t \in shorter : Len(t) = n - 1},
                                         c \in RawComponents}

Dates == {1, 2, 3, 4}

\* the histories of at most n purchase orders, numbered from the most recent
\* last receipt to the oldest
RECURSIVE HistoriesUpTo(_)
HistoriesUpTo(n) ==
    IF n = 0 THEN {<<>>}
    ELSE LET shorter == HistoriesUpTo(n - 1)
             longest == {h \in shorter : Len(h) = n - 1}
         IN  shorter \cup
             {Append(p[1], p[2]) :
                 p \in {q \in longest \X Dates : n = 1 \/ q[2] <= q[1][n - 1]}}

\* .dropna().astype(str).str.strip()
RECURSIVE Stripped(_)
Stripped(col) ==
    IF col = <<>> THEN <<>>
    ELSE (IF Head(col) = NoneCell THEN <<>> ELSE <<Strip(Str(Head(col)))>>)
             \o Stripped(Tail(col))

\* df["Component"].dropna().astype(str).str.strip().unique()
ComponentsOf(col) == Unique(Stripped(col))

\* DENSE_RANK() OVER (ORDER BY MAX(rt.transaction_date) DESC) of purchase order k
DenseRank(h, k) == 1 + Cardinality({h[j] : j \in {m \in 1..Len(h) : h[m] > h[k]}})

\* WHERE rank_by_po <= 3
Ranked(h) == {k \in 1..Len(h) : DenseRank(h, k) <= 3}

\* ORDER BY last_receipt_date DESC: the ranked purchase orders in every order
\* that the dates allow
LatestOrders(h) ==
    LET n == Cardinality(Ranked(h))
    IN  {[i \in 1..n |-> [po_number |-> o[i], last_receipt_date |-> h[o[i]]]] :
            o \in {f \in [1..n -> Ranked(h)] :
                      /\ \A i, j \in 1..n : i # j => f[i] # f[j]
                      /\ \A i \in 1..(n - 1) : h[f[i]] >= h[f[i + 1]]}}

\* the results the query may return for item_number
get_latest_purchase_orders(item_number, h) ==
    IF item_number = ItemW THEN LatestOrders(h) ELSE {<<>>}

\* variant of NotCached: the cache is not consulted
LooksUpAlways(clean, dict) == TRUE

\* "if clean not in po_info_dict"
NotCached(clean, dict) == clean \notin DOMAIN dict

InitEnrich ==
    /\ df_component \in ColumnsUpTo(MaxComponents)
    /\ po_history \in HistoriesUpTo(MaxPOs)
    /\ components = <<>>
    /\ ci = 0
    /\ po_info_dict = <<>>
    /\ calls = <<>>
    /\ ri = 0
    /\ attached = <<>>
    /\ epc = "fetch"
    /\ IdleNorm
    /\ IdleBuild

\* the PO columns are set to "" and components is computed
Fetch ==
    /\ epc = "fetch"
    /\ components' = ComponentsOf(df_component)
    /\ attached' = [i \in 1..Len(df_component) |-> <<>>]
    /\ ci' = 1
    /\ epc' = "resolve"
    /\ UNCHANGED <<df_component, po_history, po_info_dict, calls, ri, normVars,
                   buildVars, llmVars, pc>>

\* one iteration of "for component in components"
Resolve ==
    /\ epc = "resolve"
    /\ ci <= Len(components)
    /\ LET clean == normalize_component(components[ci])
       IN  IF NotCached(clean, po_info_dict)
           THEN \E po_data \in get_latest_purchase_orders(clean, po_history) :
                    /\ po_info_dict' = [k \in DOMAIN po_info_dict \cup {clean} |->
                                           IF k = clean THEN po_data ELSE po_info_dict[k]]
                    /\ calls' = Append(calls, clean)
           ELSE UNCHANGED <<po_info_dict, calls>>
    /\ ci' = ci + 1
    /\ UNCHANGED <<df_component, po_history, components, ri, attached, epc, normVars,
                   buildVars, llmVars, pc>>

\* the loop over the components is over
Resolved ==
    /\ epc = "resolve"
    /\ ci > Len(components)
    /\ ri' = 1
    /\ epc' = "enrich"
    /\ UNCHANGED <<df_component, po_history, components, ci, po_info_dict, calls,
                   attached, normVars, buildVars, llmVars, pc>>

\* po_info_dict.get(comp), None when comp is no key
Lookup(dict, key) == IF key \in DOMAIN dict THEN {dict[key]} ELSE {}

\* one iteration of "for i, row in df.iterrows()": record idx of po_data is
\* written to "PO idx+1" (df.at adds the column when it is not there)
EnrichRow ==
    /\ epc = "enrich"
    /\ ri <= Len(df_component)
    /\ LET key == normalize_component(Str(df_component[ri]))
           po_data == Lookup(po_info_dict, key)
       IN  IF po_data # {} /\ po_data # {<<>>}
           THEN attached' = [attached EXCEPT ![ri] = CHOOSE d \in po_data : TRUE]
           ELSE UNCHANGED attached
    /\ ri' = ri + 1
    /\ UNCHANGED <<df_component, po_history, components, ci, po_info_dict, calls,
                   epc, normVars, buildVars, llmVars, pc>>

\* the loop over the rows is over
Enriched ==
    /\ epc = "enrich"
    /\ ri > Len(df_component)
    /\ epc' = "done"
    /\ UNCHANGED <<df_component, po_history, components, ci, po_info_dict, calls, ri,
                   attached, normVars, buildVars, llmVars, pc>>

NextEnrich == Fetch \/ Resolve \/ Resolved \/ EnrichRow \/ Enriched

SpecEnrich == InitEnrich /\ [][NextEnrich]_vars

----------------------------------------------------------------------------
(* Properties of the enrichment *)

RowKeyOf(i) == normalize_component(Str(df_component[i]))

MostRecentFirst(d) ==
    \A i \in 1..(Len(d) - 1) : d[i].last_receipt_date >= d[i + 1].last_receipt_date

\* C9: every row gets at most 3 purchase records, most recent receipt first,
\* and a component with more than 3 purchase orders, also ones that share a
\* receipt date, gets exactly 3.
C9_AtMostThreeRecords ==
    epc = "done" =>
        \A i \in 1..Len(df_component) :
            /\ Len(attached[i]) <= 3
            /\ MostRecentFirst(attached[i])
            /\ (RowKeyOf(i) = ItemW /\ Len(po_history) > 3) => Len(attached[i]) = 3

NoDuplicates(s) == \A i, j \in 1..Len(s) : i # j => s[i] # s[j]

\* C10 as stated: get_latest_purchase_orders is called at most once per
\* distinct normalized identifier, and every row's lookup key is in the cache
\* when the rows are enriched.
C10_OncePerKeyAllRowsCached ==
    /\ NoDuplicates(calls)
    /\ epc \in {"enrich", "done"} =>
           \A i \in 1..Len(df_component) : RowKeyOf(i) \in DOMAIN po_info_dict

\* C10 amended: get_latest_purchase_orders is called at most once per distinct
\* normalized identifier, and the lookup key of every row whose component is
\* not None is in the cache when the rows are enriched.
C10_OncePerKeyNamedRowsCached ==
    /\ NoDuplicates(calls)
    /\ epc \in {"enrich", "done"} =>
           /\ \A i \in 1..Len(df_component) :
                  df_component[i] # NoneCell => RowKeyOf(i) \in DOMAIN po_info_dict
           /\ DOMAIN po_info_dict = {calls[k] : k \in 1..Len(calls)}

C10_Witness ==
    /\ epc = "done"
    /\ \E i, j \in 1..Len(df_component) :
           /\ df_component[i] = <<"-", " ", " ", "W">>
           /\ df_component[j] = <<" ", "W", " ">>
    /\ Len(components) = 2
    /\ calls = <<ItemW>>
    /\ Len(po_history) >= 1

====
